---- MODULE Spec2Model ----
(***************************************************************************)
(* The bookstore service (src/main.go): the start-up sequence that reads   *)
(* the configuration and the Vault secret, and the five HTTP handlers      *)
(* over the books table (src/README.md gives the table's schema).          *)
(*                                                                         *)
(* Strings are TLA+ strings; TLC evaluates Len, \o and SubSeq on them, so  *)
(* padding, trimming, case folding and the response bodies are computed    *)
(* character by character.  A price is an integer number of thousandths    *)
(* (9.44 is 9440); the table keeps hundredths, as decimal(5,2) does.       *)
(***************************************************************************)
EXTENDS Integers, Sequences, FiniteSets, Bags, TLC

VARIABLES
    pc,          \* position of the process: init() steps, main() steps, serving, exited
    env,         \* the process environment: name -> [ok, val] as os.LookupEnv answers
    bundle,      \* secret.Data as fetched from Vault (key -> value)
    config,      \* viper's config layer (conf), keys lower-cased
    err,         \* the variable err of init(): what the last call returned
    calls,       \* how many times init() called login / the secret fetch / the merge
    dsn,         \* dataSourceName built by main(); "" until built
    db,          \* TRUE once sql.Open returned the pool
    table,       \* the rows of the books table
    inflight,    \* createBook goroutines between Decode and books.Create: a bag of Books
    last,        \* the request handled most recently and the response written for it
    created,     \* bag of the Books whose createBook answered 200
    lastAll      \* elements of the last successful All() since the last insert

vars == <<pc, env, bundle, config, err, calls, dsn, db, table, inflight,
          last, created, lastAll>>

bootVars == <<pc, env, bundle, config, err, calls, dsn, db>>
dataVars == <<table, inflight, last, created, lastAll>>

(***************************************************************************)
(* Bounds                                                                  *)
(***************************************************************************)
MaxInflight == 2

(***************************************************************************)
(* Strings                                                                 *)
(***************************************************************************)
Last1(s) == SubSeq(s, Len(s), Len(s))

LowerChar(c) ==
    CASE c = "A" -> "a" [] c = "B" -> "b" [] c = "C" -> "c" [] c = "D" -> "d"
      [] c = "E" -> "e" [] c = "F" -> "f" [] c = "G" -> "g" [] c = "H" -> "h"
      [] c = "I" -> "i" [] c = "J" -> "j" [] c = "K" -> "k" [] c = "L" -> "l"
      [] c = "M" -> "m" [] c = "N" -> "n" [] c = "O" -> "o" [] c = "P" -> "p"
      [] c = "Q" -> "q" [] c = "R" -> "r" [] c = "S" -> "s" [] c = "T" -> "t"
      [] c = "U" -> "u" [] c = "V" -> "v" [] c = "W" -> "w" [] c = "X" -> "x"
      [] c = "Y" -> "y" [] c = "Z" -> "z" [] OTHER -> c

UpperChar(c) ==
    CASE c = "a" -> "A" [] c = "b" -> "B" [] c = "c" -> "C" [] c = "d" -> "D"
      [] c = "e" -> "E" [] c = "f" -> "F" [] c = "g" -> "G" [] c = "h" -> "H"
      [] c = "i" -> "I" [] c = "j" -> "J" [] c = "k" -> "K" [] c = "l" -> "L"
      [] c = "m" -> "M" [] c = "n" -> "N" [] c = "o" -> "O" [] c = "p" -> "P"
      [] c = "q" -> "Q" [] c = "r" -> "R" [] c = "s" -> "S" [] c = "t" -> "T"
      [] c = "u" -> "U" [] c = "v" -> "V" [] c = "w" -> "W" [] c = "x" -> "X"
      [] c = "y" -> "Y" [] c = "z" -> "Z" [] OTHER -> c

\* strings.ToLower / strings.ToUpper, as viper applies them to keys and
\* encoding/json to member names
RECURSIVE ToLower(_)
ToLower(s) ==
    IF Len(s) = 0 THEN "" ELSE LowerChar(SubSeq(s, 1, 1)) \o ToLower(SubSeq(s, 2, Len(s)))

RECURSIVE ToUpper(_)
ToUpper(s) ==
    IF Len(s) = 0 THEN "" ELSE UpperChar(SubSeq(s, 1, 1)) \o ToUpper(SubSeq(s, 2, Len(s)))

(***************************************************************************)
(* Configuration: viper with AutomaticEnv, and the merged secret           *)
(***************************************************************************)
PORT    == "PORT"
DB_HOST == "DB_HOST"
DB_PORT == "DB_PORT"
DB_NAME == "DB_NAME"
DB_USER == "DB_USER"
DB_PASS == "DB_PASS"
DB_SSL  == "DB_SSL"

\* the keys main() reads
ConfKeys == {PORT, DB_USER, DB_PASS, DB_HOST, DB_PORT, DB_NAME, DB_SSL}

Unset    == [ok |-> FALSE, val |-> ""]
SetTo(v) == [ok |-> TRUE, val |-> v]

\* the part of the environment that is the same in every run of the model
EnvBase ==
    [k \in ConfKeys |->
        CASE k = PORT    -> SetTo("8080")
          [] k = DB_HOST -> SetTo("db")
          [] k = DB_PORT -> SetTo("5432")
          [] k = DB_NAME -> SetTo("bookstore")
          [] k = DB_SSL  -> SetTo("disable")
          [] OTHER       -> Unset]

EnvWith(u, p) == [EnvBase EXCEPT ![DB_USER] = u, ![DB_PASS] = p]

\* environments: DB_USER and DB_PASS unset, set to "", or set to a value
EnvsAll ==
    { EnvWith(u, p) : u \in {Unset, SetTo(""), SetTo("envuser")},
                      p \in {Unset, SetTo(""), SetTo("envpass")} }
EnvsFew == { EnvWith(SetTo("envuser"), Unset) }

EmptyMap == [k \in {} |-> ""]

\* secret bundles: any subset of these keys, each with one of these values
BundleKeys == {"DB_USER", "Db_User", "db_user", "DB_PASS"}
BundleVals == {"vaultA", "vaultB"}
BundlesAll == UNION { [D -> BundleVals] : D \in SUBSET BundleKeys }
BundlesFew == { [k \in {"DB_USER", "DB_PASS"} |-> "vaultA"] }

\* viper.getEnv: os.LookupEnv, an empty value counting as unset (AllowEmptyEnv is off)
getEnv(e, name) ==
    IF name \in DOMAIN e /\ e[name].ok /\ e[name].val # ""
    THEN [ok |-> TRUE, val |-> e[name].val]
    ELSE Unset

\* the keys of m that lower-case to lk and are not lk itself
Spellings(m, lk) == { k \in DOMAIN m : k # lk /\ ToLower(k) = lk }

\* viper.insensitiviseMap: ranging over the map, every key that is not lower case
\* is deleted and its value stored under the lower-cased key.  The order of the
\* range is not fixed, so of several such spellings of one key any may be stored
\* last: the result is one of this set of maps.  A key that is lower case keeps
\* its value only when no other spelling of it is in the map
insensitiviseMap(m) ==
    LET lowered == { ToLower(k) : k \in DOMAIN m }
        stored(lk) == IF Spellings(m, lk) # {}
                      THEN { m[k] : k \in Spellings(m, lk) }
                      ELSE { m[lk] }
    IN  { f \in [lowered -> { m[k] : k \in DOMAIN m }] :
            \A lk \in lowered : f[lk] \in stored(lk) }

\* mergeMaps(cfg, v.config, nil): the keys of src laid over tgt
mergeMaps(src, tgt) ==
    [k \in DOMAIN tgt \cup DOMAIN src |-> IF k \in DOMAIN src THEN src[k] ELSE tgt[k]]

\* conf.MergeConfigMap(secret.Data): the lower-cased map laid over the config
\* layer; the config layers it can leave
MergeConfigMap(cfg, tgt) == { mergeMaps(src, tgt) : src \in insensitiviseMap(cfg) }

\* conf.GetString(key) under AutomaticEnv: the environment variable named
\* ToUpper(key) first, then the config layer under ToLower(key), then ""
GetString(e, c, key) ==
    LET lcaseKey == ToLower(key)
        fromEnv  == getEnv(e, ToUpper(lcaseKey))
    IN  IF fromEnv.ok THEN fromEnv.val
        ELSE IF lcaseKey \in DOMAIN c THEN c[lcaseKey]
        ELSE ""

\* main(): fmt.Sprintf("postgres://%s:%s@%s:%s/%s?sslmode=%s", ...)
dataSourceName(e, c) ==
    "postgres://" \o GetString(e, c, DB_USER) \o ":" \o GetString(e, c, DB_PASS)
        \o "@" \o GetString(e, c, DB_HOST) \o ":" \o GetString(e, c, DB_PORT)
        \o "/" \o GetString(e, c, DB_NAME) \o "?sslmode=" \o GetString(e, c, DB_SSL)

(***************************************************************************)
(* Start-up: init() and main()                                             *)
(***************************************************************************)
Fatal == {"fatal:client", "fatal:secret", "fatal:merge", "fatal:db", "fatal:listen"}

NoCalls == [login |-> 0, fetch |-> 0, merge |-> 0]

\* what loginVaultKubernetes returns: nil, or one of its three errors
LoginResults ==
    { "nil",
      "unable to initialize Kubernetes auth method",
      "unable to log in with Kubernetes auth",
      "no auth info was returned after login" }

\* init(): conf = viper.New(); conf.AutomaticEnv(); vault.NewClient(...)
NewClient ==
    /\ pc = "init"
    /\ \/ /\ err' = "unable to initialize Vault client"
          /\ pc' = "fatal:client"
       \/ /\ err' = "nil"
          /\ pc' = "login"
    /\ UNCHANGED <<env, bundle, config, calls, dsn, db>>
    /\ UNCHANGED dataVars

\* variant of Login: a failed login ends the process
LoginFatal ==
    /\ pc = "login"
    /\ \E r \in LoginResults :
          /\ err' = r
          /\ pc' = IF r = "nil" THEN "fetch" ELSE "fatal:client"
    /\ calls' = [calls EXCEPT !.login = @ + 1]
    /\ UNCHANGED <<env, bundle, config, dsn, db>>
    /\ UNCHANGED dataVars

\* init(): err = loginVaultKubernetes(client); an error is logged and nothing more
Login ==
    /\ pc = "login"
    /\ \E r \in LoginResults : err' = r
    /\ calls' = [calls EXCEPT !.login = @ + 1]
    /\ pc' = "fetch"
    /\ UNCHANGED <<env, bundle, config, dsn, db>>
    /\ UNCHANGED dataVars

\* init(): secret, err := client.KVv2(kvMount).Get(ctx, bookstoreEnv); fatal on error
KVGet(bundles) ==
    /\ pc = "fetch"
    /\ calls' = [calls EXCEPT !.fetch = @ + 1]
    /\ \/ /\ err' = "unable to read secret"
          /\ pc' = "fatal:secret"
          /\ UNCHANGED bundle
       \/ /\ \E b \in bundles : bundle' = b
          /\ err' = "nil"
          /\ pc' = "merge"
    /\ UNCHANGED <<env, config, dsn, db>>
    /\ UNCHANGED dataVars

\* init(): err = conf.MergeConfigMap(secret.Data); fatal on error.  Both outcomes
\* of the call are taken, the error being the branch init() has for it
Merge ==
    /\ pc = "merge"
    /\ calls' = [calls EXCEPT !.merge = @ + 1]
    /\ \/ /\ err' = "unable to merge secret"
          /\ pc' = "fatal:merge"
          /\ UNCHANGED config
       \/ /\ config' \in MergeConfigMap(bundle, config)
          /\ err' = "nil"
          /\ pc' = "main"
    /\ UNCHANGED <<env, bundle, dsn, db>>
    /\ UNCHANGED dataVars

\* main(): the configuration reads, the data source name, sql.Open; fatal on error
OpenDB ==
    /\ pc = "main"
    /\ dsn' = dataSourceName(env, config)
    /\ \/ /\ pc' = "fatal:db"
          /\ UNCHANGED db
       \/ /\ db' = TRUE
          /\ pc' = "listen"
    /\ UNCHANGED <<env, bundle, config, err, calls>>
    /\ UNCHANGED dataVars

\* main(): the routes are registered and http.ListenAndServe starts, or fails
ListenAndServe ==
    /\ pc = "listen"
    /\ \/ pc' = "fatal:listen"
       \/ pc' = "serving"
    /\ UNCHANGED <<env, bundle, config, err, calls, dsn, db>>
    /\ UNCHANGED dataVars

(***************************************************************************)
(* The books table: src/README.md                                          *)
(*   isbn char(14), title varchar(255), author varchar(255),               *)
(*   price decimal(5,2), all NOT NULL, primary key (isbn)                  *)
(***************************************************************************)
IsbnWidth        == 14
VarcharWidth     == 255
NumericPrecision == 5
NumericScale     == 2

RECURSIVE Pow10(_)
Pow10(n) == IF n = 0 THEN 1 ELSE 10 * Pow10(n - 1)

\* a string without its trailing spaces
RECURSIVE RTrim(_)
RTrim(s) ==
    IF Len(s) > 0 /\ Last1(s) = " " THEN RTrim(SubSeq(s, 1, Len(s) - 1)) ELSE s

\* a string blank-padded to n characters
RECURSIVE PadTo(_, _)
PadTo(s, n) == IF Len(s) >= n THEN s ELSE PadTo(s \o " ", n)

\* storing into char(14): longer is an error unless the excess is spaces; shorter is padded
bpcharAssign(s) ==
    IF Len(RTrim(s)) > IsbnWidth
    THEN [err |-> "pq: value too long for type character(14)", val |-> ""]
    ELSE [err |-> "nil", val |-> PadTo(RTrim(s), IsbnWidth)]

\* storing into varchar(255): longer is an error unless the excess is spaces
varcharAssign(s) ==
    IF Len(RTrim(s)) > VarcharWidth
    THEN [err |-> "pq: value too long for type character varying(255)", val |-> ""]
    ELSE [err |-> "nil",
          val |-> IF Len(s) > VarcharWidth THEN SubSeq(s, 1, VarcharWidth) ELSE s]

\* float32: 24 bits of mantissa
MantissaBits == 24

RECURSIVE Pow2(_)
Pow2(n) == IF n = 0 THEN 1 ELSE 2 * Pow2(n - 1)

\* the binary exponent of mills/1000, mills > 0: the e with 2^e <= mills/1000 < 2^(e+1)
RECURSIVE ExpUp(_, _)
ExpUp(units, e) == IF units < Pow2(e + 1) THEN e ELSE ExpUp(units, e + 1)

RECURSIVE ExpDown(_, _)
ExpDown(mills, e) == IF mills * Pow2(-e) >= 1000 THEN e ELSE ExpDown(mills, e - 1)

Exponent(mills) ==
    IF mills >= 1000 THEN ExpUp(mills \div 1000, 0) ELSE ExpDown(mills, -1)

\* 2^n modulo m, without the power itself
RECURSIVE Pow2Mod(_, _)
Pow2Mod(n, m) == IF n = 0 THEN 1 % m ELSE (2 * Pow2Mod(n - 1, m)) % m

\* the float32 a Price is: the value nearest to mills/1000.  Float32Cmp is the
\* side it lies on: -1 below mills/1000, 0 equal to it, 1 above.  With
\* k = MantissaBits - 1 - Exponent the mantissa is mills * 2^k / 1000
\* = mills * 2^(k-3) / 125 rounded to an integer, so the remainder modulo 125
\* decides (125 is odd: the remainder is never a half)
Float32Cmp(mills) ==
    IF mills = 0 THEN 0
    ELSE LET k == MantissaBits - 1 - Exponent(mills)
             r == ((mills % 125) * Pow2Mod(k - 3, 125)) % 125
         IN  IF r = 0 THEN 0 ELSE IF 2 * r < 125 THEN -1 ELSE 1

\* the float32 rounded to hundredths, halves away from zero: a price whose
\* decimal name ends in a 5 in the thousandths rounds by the side of that name
\* the float32 lies on
RoundCents(mills) ==
    (mills \div 10)
        + (IF mills % 10 > 5 \/ (mills % 10 = 5 /\ Float32Cmp(mills) >= 0) THEN 1 ELSE 0)

\* storing a price (a float32 named in thousandths, not negative) into
\* decimal(5,2): rounded to hundredths, an error from 1000.00 on
numericAssign(mills) ==
    LET cents == RoundCents(mills)
    IN  IF cents >= Pow10(NumericPrecision)
        THEN [err |-> "pq: numeric field overflow", val |-> 0]
        ELSE [err |-> "nil", val |-> cents]

\* char(n) comparison: trailing spaces do not count
bpcharEq(a, b) == RTrim(a) = RTrim(b)

\* SELECT * FROM books WHERE isbn=$1
SelectByIsbn(rows, isbn) == { r \in rows : bpcharEq(r.isbn, isbn) }

\* variant of Insert: the table without its primary key
InsertNoKey(rows, bk) ==
    LET i == bpcharAssign(bk.Isbn)
        t == varcharAssign(bk.Title)
        a == varcharAssign(bk.Author)
        p == numericAssign(bk.Price)
    IN  IF i.err # "nil" THEN [err |-> i.err, rows |-> rows]
        ELSE IF t.err # "nil" THEN [err |-> t.err, rows |-> rows]
        ELSE IF a.err # "nil" THEN [err |-> a.err, rows |-> rows]
        ELSE IF p.err # "nil" THEN [err |-> p.err, rows |-> rows]
        ELSE [err  |-> "nil",
              rows |-> rows \cup {[isbn |-> i.val, title |-> t.val,
                                   author |-> a.val, price |-> p.val]}]

\* INSERT INTO books (isbn, title, author, price) VALUES ($1, $2, $3, $4)
Insert(rows, bk) ==
    LET i == bpcharAssign(bk.Isbn)
        t == varcharAssign(bk.Title)
        a == varcharAssign(bk.Author)
        p == numericAssign(bk.Price)
    IN  IF i.err # "nil" THEN [err |-> i.err, rows |-> rows]
        ELSE IF t.err # "nil" THEN [err |-> t.err, rows |-> rows]
        ELSE IF a.err # "nil" THEN [err |-> a.err, rows |-> rows]
        ELSE IF p.err # "nil" THEN [err |-> p.err, rows |-> rows]
        ELSE IF SelectByIsbn(rows, i.val) # {}
        THEN [err  |-> "pq: duplicate key value violates unique constraint",
              rows |-> rows]
        ELSE [err  |-> "nil",
              rows |-> rows \cup {[isbn |-> i.val, title |-> t.val,
                                   author |-> a.val, price |-> p.val]}]

\* the error of a statement the database could not be reached for
ConnErr == "dial tcp: connection refused"

(***************************************************************************)
(* Book, and the repository: BookModel.All / Get / Create                  *)
(***************************************************************************)
Book(i, t, a, p) == [Isbn |-> i, Title |-> t, Author |-> a, Price |-> p]

\* var bk Book
ZeroBook == Book("", "", "", 0)

\* var bks []Book is the nil slice; append makes it a slice
NilSlice == [isNil |-> TRUE, elems |-> <<>>]
append(sl, x) == [isNil |-> FALSE, elems |-> Append(sl.elems, x)]

\* variant of Scan: the Title and Author destinations swapped
ScanSwapped(r) == Book(r.isbn, r.author, r.title, r.price * Pow10(3 - NumericScale))

\* rows.Scan(&bk.Isbn, &bk.Title, &bk.Author, &bk.Price)
Scan(r) == Book(r.isbn, r.title, r.author, r.price * Pow10(3 - NumericScale))

\* the orders in which a query may return the rows: SELECT has no ORDER BY
Orders(rows) ==
    { o \in [1..Cardinality(rows) -> rows] :
        \A i, j \in 1..Cardinality(rows) : i # j => o[i] # o[j] }

RECURSIVE ScanAll(_, _)
ScanAll(o, sl) ==
    IF Len(o) = 0 THEN sl ELSE ScanAll(Tail(o), append(sl, Scan(Head(o))))

\* variant of All: the loop stops one row early
AllDropLast(fail, o) ==
    IF fail THEN [err |-> ConnErr, bks |-> NilSlice]
    ELSE [err |-> "nil",
          bks |-> ScanAll(IF Len(o) = 0 THEN o ELSE SubSeq(o, 1, Len(o) - 1), NilSlice)]

\* BookModel.All, the query failing or returning the rows in the order o
All(fail, o) ==
    IF fail THEN [err |-> ConnErr, bks |-> NilSlice]
    ELSE [err |-> "nil", bks |-> ScanAll(o, NilSlice)]

\* variant of Get: sql.ErrNoRows not returned, the zero Book with a nil error
GetNoRowsOk(fail, rows, isbn) ==
    IF fail THEN [err |-> ConnErr, bk |-> ZeroBook]
    ELSE IF SelectByIsbn(rows, isbn) = {}
    THEN [err |-> "nil", bk |-> ZeroBook]
    ELSE [err |-> "nil", bk |-> Scan(CHOOSE r \in SelectByIsbn(rows, isbn) : TRUE)]

\* BookModel.Get: QueryRow(isbn).Scan(...), sql.ErrNoRows when no row matches
Get(fail, rows, isbn) ==
    IF fail THEN [err |-> ConnErr, bk |-> ZeroBook]
    ELSE IF SelectByIsbn(rows, isbn) = {}
    THEN [err |-> "sql: no rows in result set", bk |-> ZeroBook]
    ELSE [err |-> "nil", bk |-> Scan(CHOOSE r \in SelectByIsbn(rows, isbn) : TRUE)]

\* BookModel.Create: Prepare and Exec of the INSERT
Create(fail, rows, bk) ==
    IF fail THEN [err |-> ConnErr, rows |-> rows] ELSE Insert(rows, bk)

\* App.CheckDBConn: SELECT 1
CheckDBConn(fail) == IF fail THEN ConnErr ELSE "nil"

(***************************************************************************)
(* net/http: the ResponseWriter, http.Error, and Respond                   *)
(***************************************************************************)
\* a response nothing was written to: no status yet, no Content-Type set
NewResponse == [status |-> 0, nWriteHeader |-> 0, hdr |-> "", ctype |-> "", body |-> ""]

PlainText == "text/plain; charset=utf-8"

StatusText(code) ==
    CASE code = 200 -> "OK"
      [] code = 400 -> "Bad Request"
      [] code = 500 -> "Internal Server Error"
      [] OTHER      -> ""

\* w.WriteHeader(code): only the first call sets the status and sends the headers
WriteHeader(w, code) ==
    IF w.status = 0
    THEN [w EXCEPT !.status = code, !.ctype = w.hdr, !.nWriteHeader = @ + 1]
    ELSE [w EXCEPT !.nWriteHeader = @ + 1]

\* w.Write(data): an implicit WriteHeader(200) if none was sent; a body written
\* with no Content-Type set is sniffed, and text sniffs as plain text
Write(w, data) ==
    LET w1 == IF w.status = 0 THEN WriteHeader(w, 200) ELSE w
    IN  [w1 EXCEPT !.body = @ \o data,
                   !.ctype = IF @ = "" THEN PlainText ELSE @]

\* fmt.Fprintln(w, text)
Fprintln(w, text) == Write(w, text \o "\n")

\* http.Error(w, text, code)
HttpError(w, text, code) ==
    Fprintln(WriteHeader([w EXCEPT !.hdr = PlainText], code), text)

\* Respond(w, text, code)
Respond(w, text, code) ==
    Fprintln(WriteHeader([w EXCEPT !.hdr = PlainText], code), text)

(***************************************************************************)
(* encoding/json                                                           *)
(***************************************************************************)
Digit(d) == SubSeq("0123456789", d + 1, d + 1)

RECURSIVE Itoa(_)
Itoa(n) == IF n < 10 THEN Digit(n) ELSE Itoa(n \div 10) \o Digit(n % 10)

\* a float32 price as encoding/json writes it: the shortest decimal, no trailing zeros
FormatFloat(mills) ==
    LET ip == mills \div 1000
        f  == mills % 1000
    IN  IF f = 0 THEN Itoa(ip)
        ELSE IF f % 100 = 0 THEN Itoa(ip) \o "." \o Digit(f \div 100)
        ELSE IF f % 10 = 0
        THEN Itoa(ip) \o "." \o Digit(f \div 100) \o Digit((f \div 10) % 10)
        ELSE Itoa(ip) \o "." \o Digit(f \div 100) \o Digit((f \div 10) % 10) \o Digit(f % 10)

\* a Go string as a JSON string; the model's strings need no escaping
Quote(s) == "\"" \o s \o "\""

\* json.Marshal of a Book: the field names of the struct tags
MarshalBook(b) ==
    "{\"ISBN\":" \o Quote(b.Isbn) \o ",\"Title\":" \o Quote(b.Title)
        \o ",\"Author\":" \o Quote(b.Author) \o ",\"Price\":" \o FormatFloat(b.Price) \o "}"

RECURSIVE JoinBooks(_)
JoinBooks(q) ==
    IF Len(q) = 0 THEN ""
    ELSE IF Len(q) = 1 THEN MarshalBook(q[1])
    ELSE MarshalBook(q[1]) \o "," \o JoinBooks(Tail(q))

\* json.Marshal of a []Book: the nil slice is null
MarshalBooks(sl) == IF sl.isNil THEN "null" ELSE "[" \o JoinBooks(sl.elems) \o "]"

\* json.NewEncoder(w).Encode(v): the JSON text and a newline in one Write
Encode(w, text) == Write(w, text \o "\n")

\* JSON values of a request body
Str(x) == [t |-> "string", s |-> x, n |-> 0]
Num(x) == [t |-> "number", s |-> "", n |-> x]

\* a member of a JSON object, in the order of the text
Member(name, v) == [name |-> name, v |-> v]

NoMembers == << >>

\* a request body: empty, not JSON, or a JSON object with these members
EmptyBody   == [kind |-> "empty", obj |-> NoMembers]
InvalidBody == [kind |-> "invalid", obj |-> NoMembers]
Object(o)   == [kind |-> "object", obj |-> o]

\* the field of Book a member name selects: the json tags ISBN, Title, Author
\* and Price compared without regard to case; "" when no field takes the member
FieldOf(name) ==
    LET n == ToLower(name)
    IN  CASE n = "isbn"   -> "Isbn"
          [] n = "title"  -> "Title"
          [] n = "author" -> "Author"
          [] n = "price"  -> "Price"
          [] OTHER        -> ""

\* the JSON type a field of Book takes
FieldType(f) == IF f = "Price" THEN "number" ELSE "string"

\* one member stored into the Book: a member of the wrong type leaves the field
\* as it is and the first such error is kept; a later member for the same field
\* overwrites an earlier one
StoreMember(acc, m) ==
    LET f == FieldOf(m.name)
    IN  IF f = "" THEN acc
        ELSE IF m.v.t # FieldType(f)
        THEN [acc EXCEPT !.err = IF @ = "nil" THEN "json: cannot unmarshal" ELSE @]
        ELSE IF f = "Isbn"   THEN [acc EXCEPT !.bk.Isbn   = m.v.s]
        ELSE IF f = "Title"  THEN [acc EXCEPT !.bk.Title  = m.v.s]
        ELSE IF f = "Author" THEN [acc EXCEPT !.bk.Author = m.v.s]
        ELSE [acc EXCEPT !.bk.Price = m.v.n]

RECURSIVE Unmarshal(_, _)
Unmarshal(members, acc) ==
    IF members = << >> THEN acc
    ELSE Unmarshal(Tail(members), StoreMember(acc, Head(members)))

\* json.NewDecoder(r.Body).Decode(&bk): a member that is absent leaves the zero value
Decode(body) ==
    IF body.kind = "empty" THEN [err |-> "EOF", bk |-> ZeroBook]
    ELSE IF body.kind = "invalid"
    THEN [err |-> "invalid character", bk |-> ZeroBook]
    ELSE Unmarshal(body.obj, [err |-> "nil", bk |-> ZeroBook])

(***************************************************************************)
(* Requests                                                                *)
(***************************************************************************)
BookBody(i, t, a, p) ==
    Object(<< Member("ISBN", Str(i)), Member("Title", Str(t)),
              Member("Author", Str(a)), Member("Price", Num(p)) >>)

Emma        == "978-1503261969"
TimeMachine == "978-1505255607"

\* the bodies POSTed to /books
Bodies ==
    { BookBody(Emma, "Emma", "Jayne Austen", 9440),
      BookBody(Emma \o " ", "Emma", "Jane Austen", 9990),
      Object(<< Member("isbn", Str("978-15")), Member("title", Str("Short")),
                Member("author", Str("S")), Member("price", Num(5995)) >>),
      BookBody(Emma \o "0", "Long", "L", 1000),
      Object(<< Member("ISBN", Str(Emma)), Member("price", Str("9.44")) >>),
      BookBody(TimeMachine, "The Time Machine", "H. G. Wells", 1000000),
      InvalidBody,
      EmptyBody }

\* the {isbn} of GET /books/{isbn}
IsbnInputs == { Emma, TimeMachine, "978-15", "978-0000000000" }

\* the table when the process starts: empty, or holding a row inserted beforehand
InitTables ==
    { {},
      { [isbn |-> TimeMachine, title |-> "The Time Machine",
         author |-> "H. G. Wells", price |-> 599] } }

SeqToBag(q) ==
    [e \in { q[i] : i \in DOMAIN q } |-> Cardinality({ i \in DOMAIN q : q[i] = e })]

NoList == [some |-> FALSE, bag |-> EmptyBag]

\* no request handled yet
NoRequest ==
    [route |-> "", isbn |-> "", body |-> EmptyBody, repoCalls |-> 0, err |-> "nil",
     bk |-> ZeroBook, bks |-> NilSlice, w |-> NewResponse]

(***************************************************************************)
(* The handlers                                                            *)
(***************************************************************************)
\* the body of Env.appHealth and of Env.appReady: after http.Error there is no
\* return, so Respond runs in both cases
Probe(fail) ==
    LET e  == CheckDBConn(fail)
        w1 == IF e # "nil" THEN HttpError(NewResponse, StatusText(500), 500)
              ELSE NewResponse
    IN  [err |-> e, w |-> Respond(w1, StatusText(200), 200)]

\* Env.appHealth: GET /healthz
appHealth ==
    /\ pc = "serving"
    /\ \E fail \in BOOLEAN :
          last' = [NoRequest EXCEPT !.route = "/healthz", !.repoCalls = 1,
                                    !.err = Probe(fail).err, !.w = Probe(fail).w]
    /\ UNCHANGED <<table, inflight, created, lastAll>>
    /\ UNCHANGED bootVars

\* Env.appReady: GET /readyz
appReady ==
    /\ pc = "serving"
    /\ \E fail \in BOOLEAN :
          last' = [NoRequest EXCEPT !.route = "/readyz", !.repoCalls = 1,
                                    !.err = Probe(fail).err, !.w = Probe(fail).w]
    /\ UNCHANGED <<table, inflight, created, lastAll>>
    /\ UNCHANGED bootVars

\* Env.booksIndex: GET /books
booksIndex ==
    /\ pc = "serving"
    /\ \E fail \in BOOLEAN, o \in Orders(table) :
          LET r == All(fail, o)
              w == IF r.err # "nil" THEN HttpError(NewResponse, StatusText(500), 500)
                   ELSE Encode(NewResponse, MarshalBooks(r.bks))
          IN  /\ last' = [NoRequest EXCEPT !.route = "/books", !.repoCalls = 1,
                                           !.err = r.err, !.bks = r.bks, !.w = w]
              /\ lastAll' = IF r.err = "nil"
                            THEN [some |-> TRUE, bag |-> SeqToBag(r.bks.elems)]
                            ELSE lastAll
    /\ UNCHANGED <<table, inflight, created>>
    /\ UNCHANGED bootVars

\* Env.bookByISBN: GET /books/{isbn}
bookByISBN ==
    /\ pc = "serving"
    /\ \E fail \in BOOLEAN, isbn \in IsbnInputs :
          LET r == Get(fail, table, isbn)
              w == IF r.err # "nil" THEN HttpError(NewResponse, StatusText(500), 500)
                   ELSE Encode(NewResponse, MarshalBook(r.bk))
          IN  last' = [NoRequest EXCEPT !.route = "/books/{isbn}", !.isbn = isbn,
                                        !.repoCalls = 1, !.err = r.err, !.bk = r.bk,
                                        !.w = w]
    /\ UNCHANGED <<table, inflight, created, lastAll>>
    /\ UNCHANGED bootVars

\* variant of createBookDecode: no return after the 400, the handler goes on to Create
createBookDecodeNoReturn ==
    /\ pc = "serving"
    /\ \E body \in Bodies :
          LET d == Decode(body)
          IN  \/ /\ d.err # "nil"
                 /\ BagCardinality(inflight) < MaxInflight
                 /\ last' = [NoRequest EXCEPT
                               !.route = "POST /books", !.body = body, !.err = d.err,
                               !.w = HttpError(NewResponse, StatusText(400), 400)]
                 /\ inflight' = inflight (+) SetToBag({body})
              \/ /\ d.err = "nil"
                 /\ BagCardinality(inflight) < MaxInflight
                 /\ inflight' = inflight (+) SetToBag({body})
                 /\ UNCHANGED last
    /\ UNCHANGED <<table, created, lastAll>>
    /\ UNCHANGED bootVars

\* Env.createBook, up to the Decode: POST /books.  A body that does not decode is
\* answered 400 and the handler returns; otherwise the goroutine goes on to Create
createBookDecode ==
    /\ pc = "serving"
    /\ \E body \in Bodies :
          LET d == Decode(body)
          IN  \/ /\ d.err # "nil"
                 /\ last' = [NoRequest EXCEPT
                               !.route = "POST /books", !.body = body, !.err = d.err,
                               !.w = HttpError(NewResponse, StatusText(400), 400)]
                 /\ UNCHANGED inflight
              \/ /\ d.err = "nil"
                 /\ BagCardinality(inflight) < MaxInflight
                 /\ inflight' = inflight (+) SetToBag({body})
                 /\ UNCHANGED last
    /\ UNCHANGED <<table, created, lastAll>>
    /\ UNCHANGED bootVars

\* Env.createBook, from books.Create on: 500 on an error, else the book echoed
createBookCreate ==
    /\ pc = "serving"
    /\ \E body \in BagToSet(inflight), fail \in BOOLEAN :
          LET bk == Decode(body).bk
              r  == Create(fail, table, bk)
              w  == IF r.err # "nil" THEN HttpError(NewResponse, StatusText(500), 500)
                    ELSE Encode(NewResponse, MarshalBook(bk))
          IN  /\ table' = r.rows
              /\ last' = [NoRequest EXCEPT !.route = "POST /books", !.body = body,
                                           !.repoCalls = 1, !.err = r.err, !.bk = bk,
                                           !.w = w]
              /\ created' = IF r.err = "nil" THEN created (+) SetToBag({bk}) ELSE created
              /\ lastAll' = IF r.err = "nil" THEN NoList ELSE lastAll
              /\ inflight' = inflight (-) SetToBag({body})
    /\ UNCHANGED bootVars

(***************************************************************************)
(* Specifications                                                          *)
(***************************************************************************)
InitWith(envs) ==
    /\ pc = "init"
    /\ env \in envs
    /\ bundle = EmptyMap
    /\ config = EmptyMap
    /\ err = "nil"
    /\ calls = NoCalls
    /\ dsn = ""
    /\ db = FALSE
    /\ table \in InitTables
    /\ inflight = EmptyBag
    /\ last = NoRequest
    /\ created = EmptyBag
    /\ lastAll = NoList

Init == InitWith(EnvsFew)

Next ==
    \/ NewClient
    \/ Login
    \/ KVGet(BundlesFew)
    \/ Merge
    \/ OpenDB
    \/ ListenAndServe
    \/ appHealth
    \/ appReady
    \/ booksIndex
    \/ bookByISBN
    \/ createBookDecode
    \/ createBookCreate

\* the whole program: start-up, then the handlers in any interleaving
Spec == Init /\ [][Next]_vars

InitConf == InitWith(EnvsAll)

NextConf ==
    \/ NewClient
    \/ Login
    \/ KVGet(BundlesAll)
    \/ Merge
    \/ OpenDB
    \/ ListenAndServe

\* the start-up alone, over every environment and every secret bundle
SpecConf == InitConf /\ [][NextConf]_vars

(***************************************************************************)
(* Properties                                                              *)
(***************************************************************************)
AfterMerge == {"main", "listen", "serving", "fatal:db", "fatal:listen"}
AfterFetch == AfterMerge \cup {"merge", "fatal:secret", "fatal:merge"}

InEnv(k) == k \in DOMAIN env /\ env[k].ok

\* Fixed2: a price with two decimals, as the test's expected lines print it
\* ("%.2f" of the float32: an exact half goes to the even hundredth)
Fixed2(mills) ==
    LET down  == mills \div 10
        cents == down + (IF \/ mills % 10 > 5
                            \/ mills % 10 = 5 /\ Float32Cmp(mills) > 0
                            \/ mills % 10 = 5 /\ Float32Cmp(mills) = 0 /\ down % 2 = 1
                         THEN 1 ELSE 0)
    IN  Itoa(cents \div 100) \o "." \o Digit((cents \div 10) % 10) \o Digit(cents % 10)

RECURSIVE TextLines(_)
TextLines(q) ==
    IF Len(q) = 0 THEN ""
    ELSE q[1].Isbn \o ", " \o q[1].Title \o ", " \o q[1].Author \o ", $"
            \o Fixed2(q[1].Price) \o "\n" \o TextLines(Tail(q))

\* a Book that conforms to the schema: a 14-character ISBN, title and author of
\* 1 to 255 characters, a price of whole hundredths below 1000
Valid(b) ==
    /\ Len(b.Isbn) = IsbnWidth
    /\ Len(b.Title) \in 1..VarcharWidth
    /\ Len(b.Author) \in 1..VarcharWidth
    /\ b.Price % 10 = 0
    /\ b.Price >= 0
    /\ b.Price \div 10 < Pow10(NumericPrecision)

TableBag(rows) == SetToBag({ Scan(r) : r \in rows })

IsProbe  == last.route \in {"/healthz", "/readyz"}
IsIndex  == last.route = "/books"
IsGet    == last.route = "/books/{isbn}"
IsCreate == last.route = "POST /books"

\* the step in which createBook's Create ran for this body
CreateStepOf(body) ==
    /\ body \in BagToSet(inflight)
    /\ inflight' = inflight (-) SetToBag({body})

\* C1: a probe answers 200 and "OK" when CheckDBConn succeeds; when it fails it
\* answers 500 and the error text only, with a single status written and no
\* "OK" in the body
C1_ProbeWritesOneResponse ==
    IsProbe =>
        /\ last.w.nWriteHeader = 1
        /\ last.err = "nil" => last.w.status = 200 /\ last.w.body = "OK\n"
        /\ last.err # "nil" =>
              last.w.status = 500 /\ last.w.body = "Internal Server Error\n"

\* the values the bundle holds for key k, names compared without regard to
\* case: those under the spellings that are not all lower case, or the one under
\* the all-lower-case spelling when the bundle has no other
BundleValues(k) ==
    LET mixed == { n \in DOMAIN bundle : ToLower(n) = ToLower(k) /\ n # ToLower(n) }
        lower == { n \in DOMAIN bundle : ToLower(n) = ToLower(k) /\ n = ToLower(n) }
    IN  { bundle[n] : n \in IF mixed # {} THEN mixed ELSE lower }

\* C2: once the secret is merged, a key set in the environment and present in
\* the bundle reads as the bundle's value (one of them, when the bundle has the
\* key under several spellings), and a key in one of the two only as that value
C2_SecretOverridesEnv ==
    pc \in AfterMerge =>
        \A k \in ConfKeys :
            /\ InEnv(k) /\ BundleValues(k) # {} =>
                  GetString(env, config, k) \in BundleValues(k)
            /\ InEnv(k) /\ BundleValues(k) = {} =>
                  GetString(env, config, k) = env[k].val
            /\ ~InEnv(k) /\ BundleValues(k) # {} =>
                  GetString(env, config, k) \in BundleValues(k)

C3_Inv ==
    /\ \A r1, r2 \in table : bpcharEq(r1.isbn, r2.isbn) => r1 = r2
    /\ \A b1, b2 \in BagToSet(created) : bpcharEq(b1.Isbn, b2.Isbn) => b1 = b2
    /\ \A b \in BagToSet(created) : CopiesIn(b, created) = 1

C3_Step ==
    \A body \in Bodies :
        CreateStepOf(body) /\ SelectByIsbn(table, Decode(body).bk.Isbn) # {} =>
            /\ last'.w.status = 500
            /\ last'.w.body = "Internal Server Error\n"
            /\ table' = table
            /\ created' = created

\* C3: a create whose ISBN is in the table answers 500 and leaves the table as it
\* was, in every interleaving; no two rows share an ISBN, and no ISBN has two
\* creates answered 200
C3_DuplicateCreateRejected == []C3_Inv /\ [][C3_Step]_vars

C3_Witness ==
    /\ IsCreate
    /\ last.repoCalls = 1
    /\ last.err = "pq: duplicate key value violates unique constraint"
    /\ last.w.status = 500
    /\ \E b \in BagToSet(created) : bpcharEq(b.Isbn, last.bk.Isbn) /\ b # last.bk

C4_Inv ==
    IsCreate /\ Decode(last.body).err # "nil" =>
        /\ last.w.status = 400
        /\ last.w.body = "Bad Request\n"
        /\ last.repoCalls = 0

C4_Step ==
    \A body \in Bodies :
        last' # last /\ last'.body = body /\ Decode(body).err # "nil" =>
            /\ table' = table
            /\ inflight' = inflight

\* C4: a POST /books whose body does not decode answers 400, calls books.Create
\* not at all and leaves the table as it was
C4_UndecodableBodyIs400 == []C4_Inv /\ [][C4_Step]_vars

C4_Witness ==
    /\ IsCreate
    /\ last.body = InvalidBody
    /\ last.w.status = 400
    /\ last.repoCalls = 0
    /\ table # {}
    /\ inflight # EmptyBag

C5_Inv ==
    IsGet /\ last.w.status = 200 =>
        /\ SelectByIsbn(table, last.isbn) # {}
        /\ last.bk \in { Scan(r) : r \in SelectByIsbn(table, last.isbn) }
        /\ last.w.body = MarshalBook(last.bk) \o "\n"

C5_Step ==
    \A isbn \in IsbnInputs :
        /\ last' # last
        /\ last'.route = "/books/{isbn}"
        /\ last'.isbn = isbn
        /\ SelectByIsbn(table, isbn) = {}
        => /\ last'.w.status = 500
           /\ last'.w.body = "Internal Server Error\n"

\* C5: GET /books/{isbn} for an isbn no row matches answers 500; a 200 is only
\* written when a matching row exists, and then with that row as the body
C5_MissingIsbnIs500 == []C5_Inv /\ [][C5_Step]_vars

C5_Witness ==
    /\ IsGet
    /\ last.err = "sql: no rows in result set"
    /\ last.w.status = 500
    /\ SelectByIsbn(table, last.isbn) = {}
    /\ table # {}

C6_Inv ==
    \A b \in BagToSet(created) :
        IsGet /\ Valid(b) /\ bpcharEq(b.Isbn, last.isbn) /\ last.w.status = 200 =>
            /\ last.bk = b
            /\ last.w.body = MarshalBook(b) \o "\n"

C6_Step ==
    \A b \in BagToSet(created) :
        /\ Valid(b)
        /\ last' # last
        /\ last'.route = "/books/{isbn}"
        /\ last'.isbn = b.Isbn
        /\ last'.err # ConnErr
        => /\ last'.w.status = 200
           /\ last'.bk = b

\* C6: once a create of a valid Book b answered 200, every later get-by-isbn of
\* b's ISBN that the database answers returns ISBN, Title, Author and Price of b
C6_RoundTrip == []C6_Inv /\ [][C6_Step]_vars

C6_Witness ==
    /\ IsGet
    /\ last.w.status = 200
    /\ Valid(last.bk)
    /\ last.bk \in BagToSet(created)
    /\ Cardinality(table) >= 2

C7_Inv ==
    /\ calls.login <= 1 /\ calls.fetch <= 1 /\ calls.merge <= 1
    /\ pc = "fetch" => calls.login = 1 /\ calls.fetch = 0 /\ err \in LoginResults
    /\ pc \in AfterFetch => calls.login = 1 /\ calls.fetch = 1
    /\ pc \in AfterMerge => calls.merge = 1 /\ err = "nil"
    /\ db => pc \in {"listen", "serving", "fatal:listen"}
    /\ (last # NoRequest \/ inflight # EmptyBag) => pc = "serving" /\ db
    /\ pc \in {"fatal:secret", "fatal:merge"} =>
          ~db /\ dsn = "" /\ last = NoRequest /\ inflight = EmptyBag

C7_Step ==
    /\ pc = "login" => pc' = "fetch"
    /\ pc \in Fatal => pc' = pc
    /\ calls'.fetch >= calls.fetch
    /\ calls'.login >= calls.login

\* C7: the secret bootstrap runs once and is over before the database is opened
\* and before a request is handled; every outcome of the login leads to the one
\* fetch; a failed fetch or merge ends the process with no database and no request
C7_BootstrapOnceBeforeServing == []C7_Inv /\ [][C7_Step]_vars

C7_Witness ==
    /\ pc = "serving"
    /\ calls = [login |-> 1, fetch |-> 1, merge |-> 1]
    /\ db
    /\ IsCreate
    /\ last.w.status = 200

C8_Inv ==
    /\ lastAll.some => lastAll.bag = TableBag(table)
    /\ IsIndex /\ last.err = "nil" /\ lastAll.some =>
          /\ Len(last.bks.elems) = Cardinality(table)
          /\ SeqToBag(last.bks.elems) = TableBag(table)

C8_Step ==
    /\ last'.route = "/books"
    /\ last'.err = "nil"
    /\ (last' # last \/ lastAll' # lastAll)
    => /\ Len(last'.bks.elems) = Cardinality(table)
       /\ SeqToBag(last'.bks.elems) = TableBag(table)
       /\ lastAll.some => SeqToBag(last'.bks.elems) = lastAll.bag
       /\ \A b \in BagToSet(created) :
             /\ Cardinality({ i \in DOMAIN last'.bks.elems :
                                bpcharEq(last'.bks.elems[i].Isbn, b.Isbn) }) = 1
             /\ Valid(b) =>
                   Cardinality({ i \in DOMAIN last'.bks.elems :
                                   last'.bks.elems[i] = b }) = 1

\* C8: a successful list-all returns the rows of the table at call time, each
\* once; two of them with no successful create in between return the same
\* content; a book created with a 200 is in every later one exactly once
C8_ListIsTheTable == []C8_Inv /\ [][C8_Step]_vars

C8_Witness ==
    /\ IsIndex
    /\ last.err = "nil"
    /\ Len(last.bks.elems) >= 2
    /\ \E i \in DOMAIN last.bks.elems : last.bks.elems[i] \in BagToSet(created)

\* C9: with no rows, list-all returns an empty sequence that is not nil, and
\* GET /books answers 200 with the empty JSON array
C9_EmptyListIsEmptyArray ==
    IsIndex /\ last.err = "nil" /\ Len(last.bks.elems) = 0 =>
        /\ ~last.bks.isNil
        /\ last.w.status = 200
        /\ last.w.body = "[]\n"

\* C10: when All() succeeds with books, GET /books writes one line per book, in
\* the order All() returned them: "<ISBN>, <Title>, <Author>, $<Price>" and a newline
C10_IndexWritesTextLines ==
    IsIndex /\ last.err = "nil" /\ Len(last.bks.elems) > 0 =>
        last.w.body = TextLines(last.bks.elems)

====
